---- MODULE Spec2Model ----
(***************************************************************************)
(* Model of the monitor decision of merlin/router.py: check_merlin_status  *)
(* with wait_for_workers, check_workers_processing and the dispatch        *)
(* helpers it calls (query_status, get_active_queues, get_workers).        *)
(*                                                                         *)
(* One behaviour is a series of invocations of check_merlin_status with    *)
(* the same MerlinSpec.  Every step is one statement group of the code     *)
(* that ends at a call leaving the module: a task-server query or          *)
(* time.sleep.  The task server (celery) is outside the module: each query *)
(* either raises (the code has no try/except, the exception leaves         *)
(* check_merlin_status) or answers with a value of the documented shape.   *)
(* Strings are sequences of one-character strings.                         *)
(***************************************************************************)
EXTENDS Integers, Sequences, FiniteSets, TLC

VARIABLES
    frozen,          \* TRUE: the task server answers every query from snapshot
    snapshot,        \* the task server's answers while frozen
    queues_in_spec,  \* spec.get_queue_list(["all"])
    worker_names,    \* spec.get_worker_names()
    pc,              \* position inside check_merlin_status
    queue_status,    \* local of check_merlin_status
    total_jobs,      \* local of check_merlin_status
    active_queues,   \* local of check_merlin_status
    total_consumers, \* local of check_merlin_status
    count,           \* local of wait_for_workers
    worker_status,   \* local of wait_for_workers
    check,           \* local of wait_for_workers
    processing,      \* answer of check_celery_workers_processing
    active_tasks,    \* local of check_merlin_status, the value returned
    raised,          \* exception that left check_merlin_status, "none" if none
    log,             \* calls that left the module in this invocation, in order
    prev,            \* how the previous invocation ended, if it was served
                     \* from the same snapshot without a failed query
    cancel_at        \* Len(log) when the caller asked to abort the wait of this
                     \* invocation, -1 while it has not

vars == <<frozen, snapshot, queues_in_spec, worker_names, pc, queue_status,
          total_jobs, active_queues, total_consumers, count, worker_status,
          check, processing, active_tasks, raised, log, prev, cancel_at>>

(***************************************************************************)
(* Bounds of the model.                                                    *)
(***************************************************************************)
MaxJobs == 1        \* jobs reported for one queue: 0..MaxJobs
MaxWorkers == 1     \* length of a list of workers the task server reports
MaxNames == 1       \* length of the list of worker names of the spec

Queues == {"q1", "q2"}
\* worker identifiers as celery reports them, and worker names of a spec
WorkerIds == {<<"a", "b">>, <<"c">>}
Names == {<<"b">>, <<"c", "d">>}

Lists(S, n) == UNION {[1..k -> S] : k \in 0..n}
Range(s) == {s[i] : i \in 1..Len(s)}

\* the task server this installation is configured for (args.task_server)
task_server == "celery"

\* wait_for_workers: max_count = 10
max_count == 10

\* count kept from the invocation before instead of starting at 0
count_carried_over == prev.count

\* wait_for_workers: count = 0
count_init == 0

(***************************************************************************)
(* Values the task server can answer with.                                 *)
(***************************************************************************)
QueueStatuses == UNION {[D -> [jobs : 0..MaxJobs]] : D \in SUBSET Queues}
ActiveQueueMaps == UNION {[D -> Lists(WorkerIds, MaxWorkers)] : D \in SUBSET Queues}
WorkerLists == Lists(WorkerIds, MaxWorkers)
Snapshots == [status : QueueStatuses, active : ActiveQueueMaps,
              workers : WorkerLists, processing : BOOLEAN]
NoSnapshot == [status |-> <<>>, active |-> <<>>, workers |-> <<>>,
               processing |-> FALSE]

StatusAnswers == IF frozen THEN {snapshot.status} ELSE QueueStatuses
ActiveAnswers == IF frozen THEN {snapshot.active} ELSE ActiveQueueMaps
WorkerAnswers == IF frozen THEN {snapshot.workers} ELSE WorkerLists
ProcessingAnswers == IF frozen THEN {snapshot.processing} ELSE BOOLEAN

(***************************************************************************)
(* Pure parts of the code.                                                 *)
(***************************************************************************)
\* query_status: the celery answer, or [] for another task server
query_status(answer) == IF task_server = "celery" THEN answer ELSE <<>>

\* get_active_queues: the celery answer, or {} for another task server
get_active_queues(answer) == IF task_server = "celery" THEN answer ELSE <<>>

\* get_workers: the celery answer, or [] for another task server
get_workers(answer) == IF task_server = "celery" THEN answer ELSE <<>>

\* result = False never replaced by the celery answer
check_workers_processing_unassigned(answer) == FALSE

\* check_workers_processing: the celery answer, or False
check_workers_processing(answer) == IF task_server = "celery" THEN answer ELSE FALSE

\* total_jobs = 0; for queue_info in queue_status.values(): total_jobs += queue_info["jobs"]
RECURSIVE SumJobs(_, _)
SumJobs(status, todo) ==
    IF todo = {} THEN 0
    ELSE LET q == CHOOSE x \in todo : TRUE
         IN  status[q].jobs + SumJobs(status, todo \ {q})

\* only the queues of the spec added up
count_jobs_in_spec(status) == SumJobs(status, DOMAIN status \cap queues_in_spec)

count_jobs(status) == SumJobs(status, DOMAIN status)

\* consumers = set(); for active_queue, workers_on_queue in active_queues.items():
\*     if active_queue in queues_in_spec: consumers |= set(workers_on_queue)
RECURSIVE Consumers(_, _, _)
Consumers(active, in_spec, todo) ==
    IF todo = {} THEN {}
    ELSE LET q == CHOOSE x \in todo : TRUE
             rest == Consumers(active, in_spec, todo \ {q})
         IN  IF q \in in_spec THEN rest \cup Range(active[q]) ELSE rest

\* the lengths of the worker lists added up instead of their union
RECURSIVE SumConsumers(_, _, _)
SumConsumers(active, in_spec, todo) ==
    IF todo = {} THEN 0
    ELSE LET q == CHOOSE x \in todo : TRUE
             rest == SumConsumers(active, in_spec, todo \ {q})
         IN  IF q \in in_spec THEN rest + Len(active[q]) ELSE rest

count_consumers_summed(active, in_spec) ==
    SumConsumers(active, in_spec, DOMAIN active)

count_consumers(active, in_spec) ==
    Cardinality(Consumers(active, in_spec, DOMAIN active))

\* iws.startswith(iwn) in place of  iwn in iws
StrStartsWith(iwn, iws) ==
    /\ Len(iwn) <= Len(iws)
    /\ \A i \in 1..Len(iwn) : iws[i] = iwn[i]

\* Python's  iwn in iws  on two strings: iwn occurs in iws at some offset
StrIn(iwn, iws) ==
    \E k \in 0..(Len(iws) - Len(iwn)) :
        \A i \in 1..Len(iwn) : iws[k + i] = iwn[i]

\* all(...) over the worker names in place of any(...)
workers_found_all_names(names, status) ==
    \A n \in 1..Len(names) : \E s \in 1..Len(status) : StrIn(names[n], status[s])

\* check = any(any(iwn in iws for iws in worker_status) for iwn in worker_names)
workers_found(names, status) ==
    \E n \in 1..Len(names) : \E s \in 1..Len(status) : StrIn(names[n], status[s])

\* while True
loop_continues_always(c) == TRUE

\* while count <= max_count
loop_continues_once_more(c) == c <= max_count

\* while count < max_count
loop_continues(c) == c < max_count

\* the raise taken one failed poll early
no_workers_early(c) == c >= max_count - 1

\* if count == max_count: raise NoWorkersException
no_workers(c) == c = max_count

\* after the loop: if count == max_count: raise NoWorkersException
AfterLoop(c) == IF no_workers(c) THEN "raise" ELSE "decide"

\* where control goes from the head of the while loop of wait_for_workers
LoopHead(c) == IF loop_continues(c) THEN "get_workers" ELSE AfterLoop(c)

\* back to the queue-status query once the wait has found workers
PcAt_query_again(where) ==
    IF where = "raise" THEN "done"
    ELSE IF where = "decide" THEN "query_status" ELSE where

\* "raise" ends the invocation with NoWorkersException
PcAt(where) == IF where = "raise" THEN "done" ELSE where
RaisedAt(where) == IF where = "raise" THEN "NoWorkersException" ELSE "none"

\* total_jobs > 1 in place of total_jobs > 0
decision_more_than_one(jobs, initial, probe) ==
    IF jobs > 1 THEN TRUE ELSE IF jobs = 0 THEN probe ELSE initial

\* the probe made whatever total_jobs is (if in place of elif)
needs_probe_always(jobs) == TRUE

\* if total_jobs > 0: True; elif total_jobs == 0: the probe; else the initial False
needs_probe(jobs) == ~(jobs > 0) /\ jobs = 0
decision(jobs, initial, probe) ==
    IF jobs > 0 THEN TRUE ELSE IF jobs = 0 THEN probe ELSE initial

\* get_workers guarded by an except clause that goes on with no workers
propagates_except_get_workers(call) == call # "get_workers"

\* a call that leaves the module raises: no try/except encloses any of them,
\* so the exception leaves check_merlin_status
propagates(call) == TRUE

(***************************************************************************)
(* State after construction: no invocation has started.                    *)
(***************************************************************************)
NoPrev == [raised |-> "never", active_tasks |-> FALSE, log |-> <<>>, count |-> 0]

Blank ==
    /\ queue_status = <<>>
    /\ total_jobs = 0
    /\ active_queues = <<>>
    /\ total_consumers = 0
    /\ count = 0
    /\ worker_status = <<>>
    /\ check = FALSE
    /\ processing = FALSE
    /\ active_tasks = FALSE
    /\ raised = "none"
    /\ log = <<>>

InitCommon ==
    /\ queues_in_spec \in SUBSET Queues
    /\ worker_names \in Lists(Names, MaxNames)
    /\ pc = "idle"
    /\ Blank
    /\ prev = NoPrev
    /\ cancel_at = -1

\* the task server changes freely between any two queries
Init ==
    /\ frozen = FALSE
    /\ snapshot = NoSnapshot
    /\ InitCommon

\* the task server keeps one snapshot for the whole behaviour
InitSnapshot ==
    /\ frozen = TRUE
    /\ snapshot \in Snapshots
    /\ InitCommon

(***************************************************************************)
(* Steps of check_merlin_status.                                           *)
(***************************************************************************)
Inputs == <<frozen, snapshot, queues_in_spec, worker_names>>

\* a call that left the module: its name and whether it returned
Call(name, ok) == [call |-> name, ok |-> ok]

\* an exception raised by the call named leaves check_merlin_status
Raise(call, exc) ==
    /\ log' = Append(log, Call(call, FALSE))
    /\ raised' = exc
    /\ pc' = "done"

\* the monitor calls check_merlin_status(args, spec): active_tasks = False
Invoke ==
    /\ pc \in {"idle", "done"}
    /\ pc' = "query_status"
    /\ prev' = IF frozen /\ pc = "done" /\ raised # "BackendUnavailable"
               THEN [raised |-> raised, active_tasks |-> active_tasks,
                     log |-> log, count |-> count]
               ELSE NoPrev
    /\ queue_status' = <<>>
    /\ total_jobs' = 0
    /\ active_queues' = <<>>
    /\ total_consumers' = 0
    /\ count' = 0
    /\ worker_status' = <<>>
    /\ check' = FALSE
    /\ processing' = FALSE
    /\ active_tasks' = FALSE
    /\ raised' = "none"
    /\ log' = <<>>
    /\ cancel_at' = -1
    /\ UNCHANGED Inputs

\* queue_status = query_status(...); total_jobs = sum of the jobs
StatusAnswered(answer, ok) ==
    /\ queue_status' = query_status(answer)
    /\ total_jobs' = count_jobs(queue_status')
    /\ log' = Append(log, Call("query_status", ok))
    /\ pc' = "get_active_queues"
    /\ UNCHANGED raised

QueryStatus ==
    /\ pc = "query_status"
    /\ \/ IF propagates("query_status")
          THEN /\ Raise("query_status", "BackendUnavailable")
               /\ UNCHANGED <<queue_status, total_jobs>>
          ELSE StatusAnswered(<<>>, FALSE)
       \/ \E answer \in StatusAnswers : StatusAnswered(answer, TRUE)
    /\ UNCHANGED <<Inputs, cancel_at, active_queues, total_consumers, count, worker_status,
                   check, processing, active_tasks, prev>>

\* active_queues = get_active_queues(...); total_consumers = len(consumers);
\* if total_consumers == 0: enter wait_for_workers (count = 0, head of the loop)
ActiveAnswered(answer, ok) ==
    /\ active_queues' = get_active_queues(answer)
    /\ total_consumers' = count_consumers(active_queues', queues_in_spec)
    /\ log' = Append(log, Call("get_active_queues", ok))
    /\ IF total_consumers' = 0
       THEN /\ count' = count_init
            /\ pc' = PcAt(LoopHead(count'))
            /\ raised' = RaisedAt(LoopHead(count'))
       ELSE /\ pc' = "decide"
            /\ UNCHANGED <<count, raised>>

GetActiveQueues ==
    /\ pc = "get_active_queues"
    /\ \/ IF propagates("get_active_queues")
          THEN /\ Raise("get_active_queues", "BackendUnavailable")
               /\ UNCHANGED <<active_queues, total_consumers, count>>
          ELSE ActiveAnswered(<<>>, FALSE)
       \/ \E answer \in ActiveAnswers : ActiveAnswered(answer, TRUE)
    /\ UNCHANGED <<Inputs, cancel_at, queue_status, total_jobs, worker_status, check,
                   processing, active_tasks, prev>>

\* one pass of the loop body up to time.sleep: worker_status = get_workers(...),
\* check = any(...), break on a match, else count += 1
WorkersAnswered(answer, ok) ==
    /\ worker_status' = get_workers(answer)
    /\ check' = workers_found(worker_names, worker_status')
    /\ log' = Append(log, Call("get_workers", ok))
    /\ IF check'
       THEN /\ pc' = PcAt(AfterLoop(count))
            /\ raised' = RaisedAt(AfterLoop(count))
            /\ UNCHANGED count
       ELSE /\ count' = count + 1
            /\ pc' = "sleep"
            /\ UNCHANGED raised

GetWorkers ==
    /\ pc = "get_workers"
    /\ \/ IF propagates("get_workers")
          THEN /\ Raise("get_workers", "BackendUnavailable")
               /\ UNCHANGED <<worker_status, check, count>>
          ELSE WorkersAnswered(<<>>, FALSE)
       \/ \E answer \in WorkerAnswers : WorkersAnswered(answer, TRUE)
    /\ UNCHANGED <<Inputs, cancel_at, queue_status, total_jobs, active_queues,
                   total_consumers, processing, active_tasks, prev>>

\* time.sleep(sleep), then the head of the loop
Sleep ==
    /\ pc = "sleep"
    /\ log' = Append(log, Call("sleep", TRUE))
    /\ pc' = PcAt(LoopHead(count))
    /\ raised' = RaisedAt(LoopHead(count))
    /\ UNCHANGED <<Inputs, cancel_at, queue_status, total_jobs, active_queues,
                   total_consumers, count, worker_status, check, processing,
                   active_tasks, prev>>

\* the decision after the consumer check, and return active_tasks
ProcessingAnswered(answer, ok) ==
    /\ processing' = answer
    /\ active_tasks' = decision(total_jobs, active_tasks,
                                check_workers_processing(processing'))
    /\ log' = Append(log, Call("check_workers_processing", ok))
    /\ pc' = "done"
    /\ UNCHANGED raised

Decide ==
    /\ pc = "decide"
    /\ \/ /\ ~needs_probe(total_jobs)
          /\ active_tasks' = decision(total_jobs, active_tasks, FALSE)
          /\ pc' = "done"
          /\ UNCHANGED <<processing, raised, log>>
       \/ /\ needs_probe(total_jobs)
          /\ IF propagates("check_workers_processing")
             THEN /\ Raise("check_workers_processing", "BackendUnavailable")
                  /\ UNCHANGED <<processing, active_tasks>>
             ELSE ProcessingAnswered(FALSE, FALSE)
       \/ /\ needs_probe(total_jobs)
          /\ \E answer \in ProcessingAnswers : ProcessingAnswered(answer, TRUE)
    /\ UNCHANGED <<Inputs, cancel_at, queue_status, total_jobs, active_queues,
                   total_consumers, count, worker_status, check, prev>>

Next ==
    \/ Invoke
    \/ QueryStatus
    \/ GetActiveQueues
    \/ GetWorkers
    \/ Sleep
    \/ Decide

Spec == Init /\ [][Next]_vars

SpecSnapshot == InitSnapshot /\ [][Next]_vars

\* the caller asks to abort the wait in progress; wait_for_workers takes no
\* such signal and reads none, so nothing of the invocation changes
Cancel ==
    /\ pc \in {"get_workers", "sleep"}
    /\ cancel_at = -1
    /\ cancel_at' = Len(log)
    /\ UNCHANGED <<Inputs, pc, queue_status, total_jobs, active_queues,
                   total_consumers, count, worker_status, check, processing,
                   active_tasks, raised, log, prev>>

NextCancel == Next \/ Cancel

SpecCancel == Init /\ [][NextCancel]_vars

\* an invocation that has started goes on: every call it makes and every sleep
\* comes back (answered or raising), and the interpreter runs the next statement
Step == QueryStatus \/ GetActiveQueues \/ GetWorkers \/ Sleep \/ Decide

SpecLive == Init /\ [][Next]_vars /\ WF_vars(Step)

(***************************************************************************)
(* What the claims speak of, read from the log of one invocation.          *)
(***************************************************************************)
Issued(name) == {i \in DOMAIN log : log[i].call = name}
Polls == Cardinality(Issued("get_workers"))
Sleeps == Cardinality(Issued("sleep"))
Returned == pc = "done" /\ raised = "none"
StatusFetched == Len(log) >= 1 /\ log[1] = Call("query_status", TRUE)
ConsumersCounted == Len(log) >= 2 /\ log[2] = Call("get_active_queues", TRUE)
PendingOnRelevantQueue ==
    \E q \in DOMAIN queue_status \cap queues_in_spec : queue_status[q].jobs > 0
WaitEntered == ConsumersCounted /\ total_consumers = 0
WaitOver == pc \in {"decide", "done"}

\* C1 as stated: pending jobs on a relevant queue make check_status return
\* true, whatever the consumer count (every query answered).
C1_PendingJobsReturnTrue ==
    (pc = "done" /\ raised # "BackendUnavailable" /\ PendingOnRelevantQueue)
        => (Returned /\ active_tasks = TRUE)

\* C1 amended: with pending jobs on a relevant queue and every query answered,
\* check_status never returns false: it raises NoWorkersException when it saw
\* no consumer and ten polls found no expected worker, and returns true
\* otherwise.
C1_PendingJobsTrueOrNoWorkers ==
    (pc = "done" /\ raised # "BackendUnavailable" /\ PendingOnRelevantQueue)
        => IF total_consumers = 0 /\ Polls = max_count /\ ~check
           THEN raised = "NoWorkersException"
           ELSE Returned /\ active_tasks = TRUE

C1_Witness ==
    /\ Returned /\ PendingOnRelevantQueue
    /\ total_consumers = 0 /\ Polls = 3 /\ active_tasks = TRUE

\* C2: once total_consumers == 0 is observed the wait makes at most 10 polls,
\* the first one at once and every later one right after one sleep that
\* follows the poll before it, and at least 1 poll before the wait is over.
C2_PollsBoundedSleepBetween ==
    WaitEntered =>
        /\ Polls <= 10
        /\ WaitOver => Polls >= 1
        /\ \A i \in Issued("get_workers") :
              \/ i = 3
              \/ /\ i >= 5
                 /\ log[i - 1].call = "sleep"
                 /\ log[i - 2].call = "get_workers"

C2_Witness ==
    /\ WaitEntered /\ WaitOver /\ Polls = 10 /\ Sleeps = 9 /\ Returned

\* C3: check_status ends in NoWorkersException exactly when it saw no
\* consumer and ten polls were answered without a match; after a poll with a
\* match (the 10th included) it does not, and it returns a boolean unless the
\* processing probe fails.
C3_NoWorkersIffTenPollsFail ==
    pc = "done" =>
        /\ raised = "NoWorkersException" <=>
              /\ WaitEntered
              /\ Polls = 10
              /\ \A i \in Issued("get_workers") : log[i].ok
              /\ ~check
        /\ check =>
              \/ Returned
              \/ /\ raised = "BackendUnavailable"
                 /\ log[Len(log)] = Call("check_workers_processing", FALSE)

C3_Witness ==
    /\ Returned /\ WaitEntered /\ Polls = 10 /\ check

\* C4: with total_consumers > 0 and total_jobs == 0 the value returned is the
\* answer of the one processing probe.
C4_ResultIsProbeAnswer ==
    (Returned /\ ConsumersCounted /\ total_consumers > 0 /\ total_jobs = 0)
        => /\ Cardinality(Issued("check_workers_processing")) = 1
           /\ active_tasks = processing

C4_Witness ==
    /\ Returned /\ ConsumersCounted /\ total_consumers > 0 /\ total_jobs = 0
    /\ active_tasks = TRUE

\* C5: total_consumers is the number of distinct worker identifiers on the
\* entries of the active-queue map whose queue is in queues_in_spec.
C5_ConsumersAreUnionOverRelevant ==
    ConsumersCounted =>
        total_consumers =
            Cardinality({w \in WorkerIds :
                \E q \in DOMAIN active_queues \cap queues_in_spec :
                    \E i \in DOMAIN active_queues[q] : active_queues[q][i] = w})

C5_Witness ==
    /\ ConsumersCounted
    /\ total_consumers = 1
    /\ queues_in_spec = {"q1", "q2"}
    /\ DOMAIN active_queues = {"q1", "q2"}
    /\ active_queues["q1"] = active_queues["q2"]

\* C6: total_jobs is the sum of the jobs of every entry of the queue status,
\* in queues_in_spec or not.
C6_JobsAreSumOverAll ==
    StatusFetched =>
        total_jobs =
            Cardinality({<<q, i>> \in Queues \X (1..MaxJobs) :
                q \in DOMAIN queue_status /\ i <= queue_status[q].jobs})

C6_Witness ==
    /\ StatusFetched
    /\ total_jobs > 0
    /\ ~PendingOnRelevantQueue

\* C7: an invocation served from the same snapshot as the one before it ends
\* the same way (same exception or same boolean) after the same calls.
C7_SameSnapshotSameOutcome ==
    (pc = "done" /\ raised # "BackendUnavailable" /\ prev # NoPrev)
        => /\ raised = prev.raised
           /\ active_tasks = prev.active_tasks
           /\ log = prev.log

C7_Witness ==
    /\ pc = "done" /\ prev # NoPrev
    /\ raised = "NoWorkersException"

\* C8: a query that fails is the last call of the invocation, which ends in
\* BackendUnavailable: no later query, no sleep, no boolean and no
\* NoWorkersException.
C8_FailureEndsInvocation ==
    /\ \A i \in DOMAIN log :
          ~log[i].ok => (i = Len(log) /\ pc = "done" /\ raised = "BackendUnavailable")
    /\ raised = "BackendUnavailable" => (pc = "done" /\ ~log[Len(log)].ok)

C8_Witness ==
    /\ raised = "BackendUnavailable"
    /\ log[Len(log)] = Call("get_workers", FALSE)
    /\ Polls = 4

\* C9 as stated: the failed poll that brings count to max_count ends the wait
\* without a sleep, so an exhausted wait is 10 polls and 9 sleeps.
C9_NoSleepAfterLastPoll ==
    /\ pc = "sleep" => count < max_count
    /\ raised = "NoWorkersException" => (Polls = 10 /\ Sleeps = 9)

\* name is a contiguous part of id
IsSubstring(name, id) ==
    \E i \in 1..(Len(id) + 1) : \E j \in 0..Len(id) : SubSeq(id, i, j) = name

\* C10: a poll finds workers exactly when some expected name is a substring
\* of some reported identifier; a poll that finds them is the last call of
\* the wait, with as many sleeps and failed polls behind it as polls before it.
C10_MatchIsSubstringAndEndsWait ==
    /\ (Polls >= 1 /\ log[Len(log)] # Call("get_workers", FALSE)) =>
          (check <=> \E name \in Range(worker_names) :
                        \E id \in Range(worker_status) : IsSubstring(name, id))
    /\ check =>
          /\ WaitOver
          /\ count = Polls - 1
          /\ Sleeps = Polls - 1
          /\ \A i \in Issued("get_workers") \cup Issued("sleep") :
                i <= 2 + (2 * Polls - 1)
          /\ log[2 + (2 * Polls - 1)] = Call("get_workers", TRUE)

C10_Witness ==
    /\ check /\ Polls = 1 /\ count = 0 /\ Sleeps = 0
    /\ worker_names = << <<"b">> >>
    /\ worker_status = << <<"a", "b">> >>

\* C11: in one wait cycle count starts at 0, stays in 0..10, never decreases
\* and changes only by +1, on an answered poll without a match; every entry
\* into the wait of a new invocation starts from 0 again.
C11_CountStartsAtZeroStepsByOne ==
    [][ /\ count' \in 0..10
        /\ (pc = "get_active_queues" /\ pc' # "decide"
                /\ log'[Len(log')] = Call("get_active_queues", TRUE))
              => (count' = 0 /\ pc' = "get_workers")
        /\ pc \in {"get_workers", "sleep", "decide"} =>
              \/ count' = count
              \/ /\ count' = count + 1
                 /\ pc = "get_workers"
                 /\ log'[Len(log')] = Call("get_workers", TRUE)
                 /\ ~check'
        /\ (pc = "get_workers" /\ log'[Len(log')] = Call("get_workers", TRUE)
                /\ ~check') => count' = count + 1
      ]_vars

C11_Witness ==
    /\ prev # NoPrev /\ prev.count = 10
    /\ WaitEntered /\ pc = "sleep" /\ count = 1 /\ Polls = 1

\* C12: query_status is the first call and get_active_queues the second, each
\* made once and before every poll; a call that returns after a successful
\* wait decides on the total_jobs counted from that one queue status.
C12_StatusAndActiveQueriedOnceFirst ==
    /\ Issued("query_status") \subseteq {1}
    /\ Issued("get_active_queues") \subseteq {2}
    /\ pc \notin {"idle", "query_status"} => Issued("query_status") = {1}
    /\ (Polls >= 1 \/ Returned) => Issued("get_active_queues") = {2}
    /\ (Returned /\ WaitEntered) =>
          /\ total_jobs = count_jobs(queue_status)
          /\ active_tasks = (total_jobs > 0 \/ processing)

C12_Witness ==
    /\ Returned /\ WaitEntered /\ Polls = 4 /\ total_jobs = 2 /\ active_tasks

\* C13: check_workers_processing is called at most once, as the last call,
\* only with total_jobs == 0 and after the consumer check was passed (a
\* consumer seen, or the wait ended by a match): never with total_jobs > 0
\* and never in an invocation that ends in NoWorkersException.
C13_ProbeOnceOnlyWithoutJobs ==
    /\ Cardinality(Issued("check_workers_processing")) <= 1
    /\ Issued("check_workers_processing") # {} =>
          /\ Issued("check_workers_processing") = {Len(log)}
          /\ total_jobs = 0
          /\ ConsumersCounted
          /\ total_consumers > 0 \/ check
          /\ raised # "NoWorkersException"
    /\ (pc = "done" /\ total_jobs > 0) => Issued("check_workers_processing") = {}

C13_Witness ==
    /\ Returned /\ WaitEntered /\ check /\ total_jobs = 0
    /\ Issued("check_workers_processing") # {}

\* C16 as stated: NoWorkersException is raised only over a non-empty queue,
\* total_jobs > 0.
C16_NoWorkersOnlyWithJobs ==
    raised = "NoWorkersException" => total_jobs > 0

\* C17: with no expected worker name no poll finds workers, whatever is
\* reported; an invocation that saw no consumer and whose polls are all
\* answered makes 10 polls and ends in NoWorkersException.
C17_NoNamesNoMatch ==
    worker_names = <<>> =>
        /\ ~check
        /\ (pc = "done" /\ WaitEntered /\ raised # "BackendUnavailable")
              => (Polls = 10 /\ raised = "NoWorkersException")

C17_Witness ==
    /\ worker_names = <<>> /\ raised = "NoWorkersException" /\ Polls = 10
    /\ worker_status # <<>>

\* C14: every invocation that starts comes to its end, with at most 10 polls
\* and at most 10 sleeps on the way; if every call was answered it ends by
\* returning a boolean or by raising NoWorkersException.
C14_TerminatesWithinTenPolls ==
    /\ [](/\ Polls <= 10
          /\ Sleeps <= 10
          /\ (pc = "done" /\ \A i \in DOMAIN log : log[i].ok)
                => raised \in {"none", "NoWorkersException"})
    /\ (pc = "query_status") ~> (pc = "done")

C14_Witness ==
    /\ pc = "done" /\ raised = "NoWorkersException"
    /\ Polls = 10 /\ Sleeps = 10
    /\ \A i \in DOMAIN log : log[i].ok

\* C15 as stated: once the caller has asked to abort the wait, the wait ends
\* within one sleep: no poll follows a sleep that ended after the request.
C15_CancelEndsWaitWithinOneSleep ==
    cancel_at >= 0 =>
        \A i \in Issued("get_workers") :
            ~(\E j \in Issued("sleep") : cancel_at < j /\ j < i)

====
